---- MODULE Spec2Model ----
(***************************************************************************)
(* mem-scope-track: the LD_PRELOAD interception runtime.                   *)
(*                                                                         *)
(* The model follows src/unnamed/part_000 lines 1-128 (the intercepting    *)
(* malloc / free / calloc) and src/src/track.cxx (RecursionGuard, the      *)
(* Tracking ledger, memory::set_scope / track / release, the sampler).     *)
(*                                                                         *)
(* Every intercepted call is a frame on the calling thread's stack; a      *)
(* frame pushed while another frame of the same thread is inside a guarded *)
(* region is a reentrant call (the tracker's own allocations).             *)
(***************************************************************************)
EXTENDS Integers, Sequences, FiniteSets, TLC

\* ------------------------------------------------------------------ bounds
\* number of addresses the underlying allocator can hand out
NAddr == 2
\* width of size_t in the model (the code's is 64)
SizeBits == 3
\* deepest nesting of intercepted calls on one thread
MaxDepth == 2
\* host threads of the concurrent specifications
NThreads == 2
\* set_scope; alloc; free cycles each host thread of SpecCycle performs
Cycles == 2
\* the same, of each host thread that runs beside the sampler in SpecSample
SampleCycles == 1

\* ------------------------------------------------------------- constants
NULL == 0
NoThread == 0
Sampler == -1

SizeMod == 2 ^ SizeBits
SIZE_MAX == SizeMod - 1
Addr == 1 .. NAddr
Ptr == {NULL} \cup Addr

\* the host of the sequential specification
SeqThreads == {1}
\* the hosts of the concurrent specifications
ConcThreads == 1 .. NThreads
Threads == SeqThreads \cup ConcThreads

\* scope labels; "" is the empty scope, Torn stands for any string a racing
\* read or write of the shared std::string can produce
Torn == "?"
\* history value: the address is not in a host's hands
NotBorn == [scope |-> "-", size |-> 0]
ScopeNames == <<"A", "B", "C", "D">>
HostScopes == {"", "A", "B"}
ScopeVals == {"", Torn} \cup {ScopeNames[i] : i \in 1 .. NThreads}

\* request sizes the underlying allocator can satisfy: all live allocations
\* together fit the address space, so their sizes never sum past SIZE_MAX
AllocSizes == {0, 1}
\* sizes a host asks for: those, and SIZE_MAX, which no allocator satisfies
ReqSizes == AllocSizes \cup {SIZE_MAX}
\* calloc(num, size) arguments; the last product overflows size_t
CallocArgs == {<<0, 1>>, <<1, 1>>, <<2, SizeMod \div 2>>}

\* longest tail of an environment value after its stem
MaxSuffix == 3
\* RecursionGuard objects alive at once on one thread
MaxGuards == 4
\* width of size_t in the arithmetic of dummy_calloc
ArenaBits == 6
ArenaMod == 2 ^ ArenaBits
\* dummy_calloc: const size_t MAX_SIZE (1024 in the source, with a 64-bit
\* size_t; here scaled with the width)
MAX_SIZE == 4
\* sizeof(char*): buf is an array of MAX_SIZE pointers
PtrSize == 8
\* calls the bootstrap allocator serves
MaxCallocs == 2
\* the num and size of a request
ArenaArgs == {0, 1, 2, 8, ArenaMod - 1}
NoRequest == [num |-> 0, size |-> 0, old |-> 0]

\* strings are sequences of characters; getenv gives Unset for a variable
\* that is not set
Unset == <<"unset">>
STDOUT == <<"s", "t", "d", "o", "u", "t">>
STDERR == <<"s", "t", "d", "e", "r", "r">>
GZ == <<".", "g", "z">>
Take(str, n) == SubSeq(str, 1, IF n < Len(str) THEN n ELSE Len(str))
SuffixChars == {".", "g", "z"}
Suffixes == UNION {[1 .. n -> SuffixChars] : n \in 0 .. MaxSuffix}
Stems == {Take(STDOUT, k) : k \in 0 .. Len(STDOUT)} \cup
         {Take(STDERR, k) : k \in 0 .. Len(STDERR)}
\* the values the two environment variables are given
EnvValues == {Unset} \cup {w \o x : w \in Stems, x \in Suffixes}
OutfileValues == {Unset, <<"o">>, <<"o">> \o GZ}
\* the name RandomOutfile makes up
RandomName == <<"m">> \o GZ
NullOutfile == [null |-> TRUE, filename_ |-> << >>, is_open |-> FALSE, gz |-> FALSE]

\* the trampolines of the three intercepted functions
Trampolines == {"malloc", "free", "calloc"}

VARIABLES
    tracking_enabled,   \* static std::atomic<bool> tracking_enabled
    recursion_guard_,   \* thread_local std::atomic_flag, one per thread
    scope,              \* memory::scope, the process-wide string
    scope_writers,      \* threads inside the unsynchronised write scope = s
    scope_torn,         \* two writes of scope have overlapped
    thread_guard_,      \* Tracking::thread_guard_: the thread holding it
    ptr_map,            \* Tracking::ptr_map_ : address -> (scope, size)
    scope_map,          \* Tracking::scope_map_ : scope -> total
    logged,             \* the records of the last Log::print call(s)
    heap,               \* the underlying allocator: address -> state
    stack,              \* per host thread: frames of intercepted calls
    phase,              \* SpecCycle: the host's place in its cycle
    cycle,              \* SpecCycle: cycles the host has completed
    held,               \* SpecCycle: the pointer the host's malloc returned
    born,               \* history: scope and size when an address was handed out
    everAdded,          \* history: scopes Tracking::add has inserted
    spc,                \* sampler: place in TrackingThread::run
    ret,                \* sampler: the copy get_extents is building
    extents,            \* sampler: the map get_extents returned
    original,           \* overloads::malloc/free/calloc .original
    env_preload,        \* LD_PRELOAD is set in the environment
    made,               \* history: objects constructed, hooks registered
    aborted,            \* abort() was called
    ipc,                \* per thread: place in its first allocator call
    running_,           \* TrackingThread::running_
    map_state,          \* memory::map and the Tracking it owns
    log_state,          \* memory::log and the Log it owns
    dpc,                \* the main thread's place in exit and memory::destroy
    faulted,            \* the process died on a destroyed or absent object
    timeline,           \* history: the frames written, repeats dropped
    final_frame,        \* history: a frame was written after running_ = false
    unfreed,            \* the leak report of Tracking::~Tracking
    env_logfile,        \* getenv("MEMSCOPETRACK_LOGFILE")
    env_outfile,        \* getenv("MEMSCOPETRACK_OUTFILE")
    can_open,           \* the file system lets the paths be opened for writing
    out_,               \* Log::out_
    logfile_,           \* Log::logfile_
    outfile,            \* the sampler's outfile
    thrown,             \* std::runtime_error("cannot open output file") was thrown
    printed_to,         \* where the last Log::print went
    guards,             \* SpecGuard: per thread, the recursion members of its live guards
    offset,             \* dummy_calloc: static size_t offset
    regions,            \* history: the regions dummy_calloc has returned
    asked,              \* history: the last request made to dummy_calloc
    exhausted           \* history: dummy_calloc has called abort()

ledger == <<ptr_map, scope_map, everAdded>>
scopeVars == <<scope, scope_writers, scope_torn>>
hostVars == <<phase, cycle, held>>
samplerVars == <<spc, ret, extents>>
bootVars == <<original, env_preload, made, aborted, ipc>>
exitVars == <<running_, map_state, log_state, dpc, faulted, timeline, final_frame,
              unfreed>>
logVars == <<env_logfile, env_outfile, can_open, out_, logfile_, outfile, thrown,
             printed_to>>
arenaVars == <<offset, regions, asked, exhausted>>
lifeVars == <<bootVars, exitVars, logVars, guards, arenaVars>>
vars == <<tracking_enabled, recursion_guard_, scope, scope_writers, scope_torn,
          thread_guard_, ptr_map, scope_map, logged, heap, stack, phase, cycle,
          held, born, everAdded, spc, ret, extents, original, env_preload,
          made, aborted, ipc, running_, map_state, log_state, dpc, faulted,
          timeline, final_frame, unfreed, env_logfile, env_outfile, can_open,
          out_, logfile_, outfile, thrown, printed_to, guards, offset, regions,
          asked, exhausted>>

\* ---------------------------------------------------------------- helpers
EmptyMap == [k \in {} |-> 0]
MapRemove(m, k) == [x \in DOMAIN m \ {k} |-> m[x]]

Depth(t) == Len(stack[t])
Top(t) == stack[t][Len(stack[t])]
Push(t, f) == [stack EXCEPT ![t] = Append(@, f)]
Pop(t) == [stack EXCEPT ![t] = SubSeq(@, 1, Len(@) - 1)]
SetTop(t, f) == [stack EXCEPT ![t] = [@ EXCEPT ![Len(@)] = f]]
At(t, fns, pc) == Depth(t) > 0 /\ Top(t).fn \in fns /\ Top(t).pc = pc
Idle(t) == Depth(t) = 0

\* a frame of an intercepted call. rec is RecursionGuard::recursion of the
\* guard the call constructs; reent and calls are history: whether the
\* thread's flag was set on entry, and the underlying allocator calls made.
Frame(fn, pc, addr, size, sc, rec, reent, calls) ==
    [fn |-> fn, pc |-> pc, addr |-> addr, size |-> size, sc |-> sc,
     rec |-> rec, reent |-> reent, calls |-> calls]

\* places inside a guarded region where the tracker itself allocates or
\* frees: the string assignment of set_scope, the map insertion of add, the
\* string copy and map erase of remove
AllocSites == {"ss_write", "add_body", "rm_body"}
\* places where the sampler thread allocates or frees: the map copy of
\* get_extents (line 398) and the writes of print (lines 287-290)
SamplerAllocSites == {"ge_copy", "write"}
\* a host call needs an idle thread; a reentrant call a frame at such a
\* place, or the sampler thread at one of its places
CanCall(t, nested) ==
    IF t = Sampler
    THEN nested /\ Depth(t) = 0 /\ spc \in SamplerAllocSites
    ELSE IF nested
         THEN Depth(t) > 0 /\ Depth(t) < MaxDepth /\ Top(t).pc \in AllocSites
         ELSE Depth(t) = 0

\* ------------------------------------------------------- RecursionGuard
\* mutant: the guard never reports a reentry
RecursionGuard_recursion_never(t) == FALSE

\* RecursionGuard(): recursion = recursion_guard_.test_and_set()
RecursionGuard_recursion(t) == recursion_guard_[t]
\* a constructor that tests the flag without setting it
RecursionGuard_ctor_unset(t) == recursion_guard_

RecursionGuard_ctor(t) == [recursion_guard_ EXCEPT ![t] = TRUE]
\* a destructor that clears the flag whichever guard it belongs to
RecursionGuard_dtor_always(flags, t, recursion) == [flags EXCEPT ![t] = FALSE]

\* ~RecursionGuard(): if (!recursion) recursion_guard_.clear()
\* flags is the flag array as the constructor left it
RecursionGuard_dtor(flags, t, recursion) ==
    IF ~recursion THEN [flags EXCEPT ![t] = FALSE] ELSE flags

\* ------------------------------------------------------------ the mutex
\* a lock that does not exclude
lock_guard_open(t) == thread_guard_' = t
\* std::lock_guard<std::mutex> lock(thread_guard_): blocks while it is held
lock_guard(t) == thread_guard_ = NoThread /\ thread_guard_' = t
\* a destructor that leaves the mutex held
unlock_guard_never(t) == thread_guard_' = thread_guard_
\* the lock_guard's destructor
unlock_guard(t) == thread_guard_' = NoThread

\* ----------------------------------------------------- the scope string
\* a read of memory::scope; it races with a write in progress
ReadScope == IF scope_writers = {} THEN {scope} ELSE ScopeVals

\* ------------------------------------------------------ Tracking ledger
\* Tracking::add on ptr_map_
add_ptr_map(pm, addr, sc, size) ==
    IF addr \notin DOMAIN pm
    THEN pm @@ (addr :> [scope |-> sc, size |-> size])
    ELSE pm

\* mutant: the bytes are added to the scope even when the address is a
\* duplicate
add_scope_map_dup(sm, pm, addr, sc, size) ==
    IF sc \notin DOMAIN sm
    THEN sm @@ (sc :> size)
    ELSE [sm EXCEPT ![sc] = (@ + size) % SizeMod]

\* Tracking::add on scope_map_ (size_t arithmetic wraps)
add_scope_map(sm, pm, addr, sc, size) ==
    IF addr \notin DOMAIN pm
    THEN IF sc \notin DOMAIN sm
         THEN sm @@ (sc :> size)
         ELSE [sm EXCEPT ![sc] = (@ + size) % SizeMod]
    ELSE sm

\* Tracking::add: what it prints
add_log(pm, addr) ==
    IF addr \notin DOMAIN pm THEN logged ELSE <<"duplicate", "previous">>

\* mutant: a scope whose total reaches zero is erased from scope_map_
remove_scope_map_erase(sm, pm, addr) ==
    IF addr \in DOMAIN pm /\ pm[addr].scope \in DOMAIN sm
    THEN IF sm[pm[addr].scope] <= pm[addr].size
         THEN MapRemove(sm, pm[addr].scope)
         ELSE [sm EXCEPT ![pm[addr].scope] = @ - pm[addr].size]
    ELSE sm

\* Tracking::remove on scope_map_
remove_scope_map(sm, pm, addr) ==
    IF addr \in DOMAIN pm
    THEN LET sc == pm[addr].scope
             size == pm[addr].size
         IN IF sc \in DOMAIN sm
            THEN IF sm[sc] <= size
                 THEN [sm EXCEPT ![sc] = 0]
                 ELSE [sm EXCEPT ![sc] = @ - size]
            ELSE sm
    ELSE sm

\* Tracking::remove on ptr_map_
remove_ptr_map(pm, addr) ==
    IF addr \in DOMAIN pm THEN MapRemove(pm, addr) ELSE pm

\* ------------------------------------------------ underlying allocator
\* overloads::malloc(size): NULL, or an address not in use; a request the
\* address space cannot hold always fails
real_malloc(size) ==
    {NULL} \cup (IF size \in AllocSizes THEN {a \in Addr : heap[a] = "free"} ELSE {})

\* overloads::calloc(num, size): fails when num * size overflows
real_calloc(num, size) == real_malloc(num * size)

HeapTake(p) == IF p = NULL THEN heap ELSE [heap EXCEPT ![p] = "busy"]

HeapGive(p, nested) ==
    IF p = NULL THEN heap ELSE [heap EXCEPT ![p] = IF nested THEN "int" ELSE "host"]

\* ---------------------------------------------------------- entry points
\* extern "C" malloc(size), up to the return of overloads::malloc: the
\* result is handed to memory::track whether or not it is NULL
malloc(t, nested, size) ==
    /\ CanCall(t, nested)
    /\ \E p \in real_malloc(size) :
          /\ stack' = Push(t, Frame("malloc", "track", p, size, "", FALSE,
                                    recursion_guard_[t], 1))
          /\ heap' = HeapTake(p)
    /\ UNCHANGED <<tracking_enabled, recursion_guard_, scopeVars, thread_guard_,
                   ledger, logged>>

\* extern "C" calloc(num, size), up to the return of overloads::calloc:
\* memory::track is called only if (ptr)
calloc(t, nested, num, size) ==
    /\ CanCall(t, nested)
    /\ \E p \in real_calloc(num, size) :
          /\ stack' = Push(t, Frame("calloc", IF p # NULL THEN "track" ELSE "ret",
                                    p, (num * size) % SizeMod, "", FALSE,
                                    recursion_guard_[t], 1))
          /\ heap' = HeapTake(p)
    /\ UNCHANGED <<tracking_enabled, recursion_guard_, scopeVars, thread_guard_,
                   ledger, logged>>

\* extern "C" free(ptr), entered: memory::release comes before overloads::free.
\* A host frees NULL or an address it was given; the tracker one of its own.
free(t, nested, p) ==
    /\ CanCall(t, nested)
    /\ IF p = NULL THEN TRUE ELSE heap[p] = (IF nested THEN "int" ELSE "host")
    /\ stack' = Push(t, Frame("free", "release", p, 0, "", FALSE,
                              recursion_guard_[t], 0))
    /\ heap' = HeapTake(p)
    /\ UNCHANGED <<tracking_enabled, recursion_guard_, scopeVars, thread_guard_,
                   ledger, logged>>

\* memory::track, lines 434-436: the guard, and the early return
memory_track(t) ==
    /\ At(t, {"malloc", "calloc"}, "track")
    /\ LET recursion == RecursionGuard_recursion(t)
           flags == RecursionGuard_ctor(t)
       IN IF recursion \/ ~tracking_enabled
          THEN /\ recursion_guard_' = RecursionGuard_dtor(flags, t, recursion)
               /\ stack' = SetTop(t, [Top(t) EXCEPT !.pc = "ret", !.rec = recursion])
          ELSE /\ recursion_guard_' = flags
               /\ stack' = SetTop(t, [Top(t) EXCEPT !.pc = "t_log", !.rec = recursion])
    /\ UNCHANGED <<tracking_enabled, scopeVars, thread_guard_, ledger, logged, heap>>

\* mutant: map->add is called whatever the scope is
track_log_always(t) ==
    /\ At(t, {"malloc", "calloc"}, "t_log")
    /\ logged' = <<"tracking">>
    /\ stack' = SetTop(t, [Top(t) EXCEPT !.pc = "t_copy"])
    /\ UNCHANGED <<tracking_enabled, recursion_guard_, scopeVars, thread_guard_,
                   ledger, heap>>

\* memory::track, lines 438-439: the log record and if (!scope.empty())
track_log(t) ==
    /\ At(t, {"malloc", "calloc"}, "t_log")
    /\ logged' = <<"tracking">>
    /\ \E s \in ReadScope :
          IF s # ""
          THEN /\ stack' = SetTop(t, [Top(t) EXCEPT !.pc = "t_copy"])
               /\ UNCHANGED recursion_guard_
          ELSE /\ stack' = SetTop(t, [Top(t) EXCEPT !.pc = "ret"])
               /\ recursion_guard_' =
                      RecursionGuard_dtor(recursion_guard_, t, Top(t).rec)
    /\ UNCHANGED <<tracking_enabled, scopeVars, thread_guard_, ledger, heap>>

\* memory::track, line 440: the copy of scope passed to map->add
track_copy(t) ==
    /\ At(t, {"malloc", "calloc"}, "t_copy")
    /\ \E s \in ReadScope :
          stack' = SetTop(t, [Top(t) EXCEPT !.pc = "add_lock", !.sc = s])
    /\ UNCHANGED <<tracking_enabled, recursion_guard_, scopeVars, thread_guard_,
                   ledger, logged, heap>>

\* Tracking::add, line 357
Tracking_add_lock(t) ==
    /\ At(t, {"malloc", "calloc"}, "add_lock")
    /\ lock_guard(t)
    /\ stack' = SetTop(t, [Top(t) EXCEPT !.pc = "add_body"])
    /\ UNCHANGED <<tracking_enabled, recursion_guard_, scopeVars, ledger, logged,
                   heap>>

\* Tracking::add, lines 358-371, and the return of memory::track
Tracking_add(t) ==
    /\ At(t, {"malloc", "calloc"}, "add_body")
    /\ LET f == Top(t)
       IN /\ ptr_map' = add_ptr_map(ptr_map, f.addr, f.sc, f.size)
          /\ scope_map' = add_scope_map(scope_map, ptr_map, f.addr, f.sc, f.size)
          /\ logged' = add_log(ptr_map, f.addr)
          /\ everAdded' = IF f.addr \notin DOMAIN ptr_map
                          THEN everAdded \cup {f.sc} ELSE everAdded
          /\ recursion_guard_' = RecursionGuard_dtor(recursion_guard_, t, f.rec)
    /\ unlock_guard(t)
    /\ stack' = SetTop(t, [Top(t) EXCEPT !.pc = "ret"])
    /\ UNCHANGED <<tracking_enabled, scopeVars, heap>>

\* memory::release, lines 446-448
memory_release(t) ==
    /\ At(t, {"free"}, "release")
    /\ LET recursion == RecursionGuard_recursion(t)
           flags == RecursionGuard_ctor(t)
       IN IF recursion \/ ~tracking_enabled
          THEN /\ recursion_guard_' = RecursionGuard_dtor(flags, t, recursion)
               /\ stack' = SetTop(t, [Top(t) EXCEPT !.pc = "real", !.rec = recursion])
          ELSE /\ recursion_guard_' = flags
               /\ stack' = SetTop(t, [Top(t) EXCEPT !.pc = "r_log", !.rec = recursion])
    /\ UNCHANGED <<tracking_enabled, scopeVars, thread_guard_, ledger, logged, heap>>

\* memory::release, line 450
release_log(t) ==
    /\ At(t, {"free"}, "r_log")
    /\ logged' = <<"release">>
    /\ stack' = SetTop(t, [Top(t) EXCEPT !.pc = "rm_lock"])
    /\ UNCHANGED <<tracking_enabled, recursion_guard_, scopeVars, thread_guard_,
                   ledger, heap>>

\* Tracking::remove, line 376
Tracking_remove_lock(t) ==
    /\ At(t, {"free"}, "rm_lock")
    /\ lock_guard(t)
    /\ stack' = SetTop(t, [Top(t) EXCEPT !.pc = "rm_body"])
    /\ UNCHANGED <<tracking_enabled, recursion_guard_, scopeVars, ledger, logged,
                   heap>>

\* Tracking::remove, lines 377-391, and the return of memory::release
Tracking_remove(t) ==
    /\ At(t, {"free"}, "rm_body")
    /\ LET f == Top(t)
       IN /\ scope_map' = remove_scope_map(scope_map, ptr_map, f.addr)
          /\ ptr_map' = remove_ptr_map(ptr_map, f.addr)
          /\ recursion_guard_' = RecursionGuard_dtor(recursion_guard_, t, f.rec)
    /\ unlock_guard(t)
    /\ stack' = SetTop(t, [Top(t) EXCEPT !.pc = "real"])
    /\ UNCHANGED <<tracking_enabled, scopeVars, everAdded, logged, heap>>

\* extern "C" free, line 111: overloads::free(ptr)
real_free(t) ==
    /\ At(t, {"free"}, "real")
    /\ heap' = IF Top(t).addr = NULL THEN heap
               ELSE [heap EXCEPT ![Top(t).addr] = "free"]
    /\ stack' = SetTop(t, [Top(t) EXCEPT !.pc = "ret", !.calls = @ + 1])
    /\ UNCHANGED <<tracking_enabled, recursion_guard_, scopeVars, thread_guard_,
                   ledger, logged>>

\* memory::set_scope, entered: the guard, and the assignment scope = s begun
set_scope(t, s) ==
    /\ CanCall(t, FALSE)
    /\ stack' = Push(t, Frame("set_scope", "ss_write", NULL, 0, s,
                              RecursionGuard_recursion(t), recursion_guard_[t], 0))
    /\ recursion_guard_' = RecursionGuard_ctor(t)
    /\ scope_writers' = scope_writers \cup {t}
    /\ scope_torn' = (scope_torn \/ scope_writers # {})
    /\ UNCHANGED <<tracking_enabled, scope, thread_guard_, ledger, logged, heap>>

\* memory::set_scope: the assignment done, the guard destroyed. Writes that
\* overlapped leave any string.
set_scope_end(t) ==
    /\ At(t, {"set_scope"}, "ss_write")
    /\ scope_writers' = scope_writers \ {t}
    /\ IF scope_writers' = {}
       THEN /\ scope_torn' = FALSE
            /\ scope' \in (IF scope_torn THEN ScopeVals ELSE {Top(t).sc})
       ELSE UNCHANGED <<scope, scope_torn>>
    /\ recursion_guard_' = RecursionGuard_dtor(recursion_guard_, t, Top(t).rec)
    /\ stack' = SetTop(t, [Top(t) EXCEPT !.pc = "ret"])
    /\ UNCHANGED <<tracking_enabled, thread_guard_, ledger, logged, heap>>

\* the return of an intercepted call to its caller: the host, or the tracker
Return(t) ==
    /\ Depth(t) > 0
    /\ Top(t).pc = "ret"
    /\ stack' = Pop(t)
    /\ heap' = IF Top(t).fn \in {"malloc", "calloc"}
               THEN HeapGive(Top(t).addr, Depth(t) > 1 \/ t = Sampler) ELSE heap
    /\ UNCHANGED <<tracking_enabled, recursion_guard_, scopeVars, thread_guard_,
                   ledger, logged>>

\* ------------------------------------------------------------ the sampler
\* TrackingThread::run holds a RecursionGuard for its whole life (line 264).
\* print, line 285: tracking_.get_extents() entered, the mutex taken (397)
get_extents_lock ==
    /\ spc = "print"
    /\ lock_guard(Sampler)
    /\ spc' = "ge_copy"
    /\ ret' = EmptyMap
    /\ UNCHANGED <<tracking_enabled, recursion_guard_, scopeVars, ledger, logged,
                   heap, stack, extents>>

\* Tracking::get_extents, line 398: ret(scope_map_), copied entry by entry
get_extents_copy ==
    /\ spc = "ge_copy"
    /\ IF DOMAIN scope_map \subseteq DOMAIN ret
       THEN /\ spc' = "ge_ret"
            /\ ret' = ret
       ELSE /\ LET k == CHOOSE x \in DOMAIN scope_map \ DOMAIN ret : TRUE
               IN ret' = ret @@ (k :> scope_map[k])
            /\ spc' = spc
    /\ UNCHANGED <<tracking_enabled, recursion_guard_, scopeVars, thread_guard_,
                   ledger, logged, heap, stack, extents>>

\* a get_extents whose caller keeps the mutex while it uses the copy
get_extents_return_locked ==
    /\ spc = "ge_ret"
    /\ extents' = ret
    /\ ret' = EmptyMap
    /\ spc' = "write"
    /\ UNCHANGED <<tracking_enabled, recursion_guard_, scopeVars, thread_guard_,
                   ledger, logged, heap, stack>>

\* Tracking::get_extents, lines 399-400: return ret, the mutex released
get_extents_return ==
    /\ spc = "ge_ret"
    /\ unlock_guard(Sampler)
    /\ extents' = ret
    /\ ret' = EmptyMap
    /\ spc' = "write"
    /\ UNCHANGED <<tracking_enabled, recursion_guard_, scopeVars, ledger, logged,
                   heap, stack>>

\* print, lines 286-290: the frame written to the outfile; extents is a
\* local of the lambda
sampler_write ==
    /\ spc = "write"
    /\ extents' = EmptyMap
    /\ spc' = "loop"
    /\ UNCHANGED <<tracking_enabled, recursion_guard_, scopeVars, thread_guard_,
                   ledger, logged, heap, stack, ret>>

\* run, line 293: while(running_); after the loop the thread ends
sampler_loop ==
    /\ spc = "loop"
    /\ spc' = (IF running_ THEN "wait" ELSE "exited")
    /\ UNCHANGED <<tracking_enabled, recursion_guard_, scopeVars, thread_guard_,
                   ledger, logged, heap, stack, ret, extents>>

\* run, lines 294-295: wait_for returns (running_ is false, a notification,
\* or the 100 ms are over) and print() is called
sampler_wait ==
    /\ spc = "wait"
    /\ spc' = "print"
    /\ UNCHANGED <<tracking_enabled, recursion_guard_, scopeVars, thread_guard_,
                   ledger, logged, heap, stack, ret, extents>>

\* ------------------------------------------------- Log and Outfile
\* strncmp(a, b, n) == 0: the first n characters agree, a string that ends
\* sooner agreeing only with one that ends at the same place
strncmp_eq(a, b, n) == Take(a, n) = Take(b, n)

\* Outfile::Outfile, lines 194-198
has_suffix(filename_, suffix) ==
    /\ Len(filename_) >= Len(suffix)
    /\ SubSeq(filename_, Len(filename_) - Len(suffix) + 1, Len(filename_)) = suffix

\* std::make_unique<std::ofstream>(filename_, ...), line 199: always an
\* object, whose stream is open only if the file could be opened
make_unique_ofstream(path, openable) == [null |-> FALSE, is_open |-> openable]

\* Outfile::Outfile, lines 199-202: if (!outfile_base_) throw
Outfile_throws(path, openable) == make_unique_ofstream(path, openable).null

\* Outfile::Outfile, lines 191-213, when it does not throw
Outfile_ctor(path, openable) ==
    [null |-> FALSE, filename_ |-> path,
     is_open |-> make_unique_ofstream(path, openable).is_open,
     gz |-> has_suffix(path, GZ)]

\* Log::Log, lines 85-98: the destination
Log_dest(filename) ==
    IF filename = Unset THEN "none"
    ELSE IF strncmp_eq(filename, STDOUT, 6) THEN "stdout"
    ELSE IF strncmp_eq(filename, STDERR, 6) THEN "stderr"
    ELSE "file"

\* Log::Log, called by memory::init
Log_ctor ==
    /\ log_state = "none"
    /\ ~thrown
    /\ IF Log_dest(env_logfile) = "file" /\ Outfile_throws(env_logfile, can_open)
       THEN /\ thrown' = TRUE
            /\ UNCHANGED <<log_state, out_, logfile_>>
       ELSE /\ log_state' = "live"
            /\ out_' = Log_dest(env_logfile)
            /\ logfile_' = (IF Log_dest(env_logfile) = "file"
                            THEN Outfile_ctor(env_logfile, can_open) ELSE NullOutfile)
            /\ UNCHANGED thrown
    /\ UNCHANGED <<env_logfile, env_outfile, can_open, outfile, printed_to>>

\* Log::print, lines 105-115
Log_print ==
    /\ log_state = "live"
    /\ printed_to' = (IF out_ = "file" /\ ~logfile_.null THEN "file"
                      ELSE IF out_ = "stdout" THEN "stdout"
                      ELSE IF out_ = "stderr" THEN "stderr"
                      ELSE "none")
    /\ UNCHANGED <<env_logfile, env_outfile, can_open, out_, logfile_, outfile,
                   thrown, log_state>>

\* TrackingThread::run, lines 275-281: the sampler's outfile
sampler_open ==
    /\ outfile.null
    /\ ~thrown
    /\ LET path == IF env_outfile = Unset THEN RandomName ELSE env_outfile
       IN IF Outfile_throws(path, can_open)
          THEN thrown' = TRUE /\ UNCHANGED outfile
          ELSE outfile' = Outfile_ctor(path, can_open) /\ UNCHANGED thrown
    /\ UNCHANGED <<env_logfile, env_outfile, can_open, out_, logfile_, printed_to,
                   log_state>>

\* the settings under which the other specifications run: no log file, the
\* sampler's outfile open
LogDefaults ==
    /\ env_logfile = Unset
    /\ env_outfile = <<"o">>
    /\ can_open = TRUE
    /\ out_ = "none"
    /\ logfile_ = NullOutfile
    /\ outfile = Outfile_ctor(<<"o">>, TRUE)
    /\ thrown = FALSE
    /\ printed_to = "none"

\* --------------------------------------------------------- initial state
\* the process after overloads::init and memory::init have run
Init ==
    /\ tracking_enabled = TRUE
    /\ recursion_guard_ = [t \in Threads \cup {Sampler} |-> t = Sampler]
    /\ scope = ""
    /\ scope_writers = {}
    /\ scope_torn = FALSE
    /\ thread_guard_ = NoThread
    /\ ptr_map = EmptyMap
    /\ scope_map = EmptyMap
    /\ logged = << >>
    /\ heap = [a \in Addr |-> "free"]
    /\ stack = [t \in Threads \cup {Sampler} |-> << >>]
    /\ phase = [t \in Threads |-> "scope"]
    /\ cycle = [t \in Threads |-> 0]
    /\ held = [t \in Threads |-> NULL]
    /\ born = [p \in Addr |-> NotBorn]
    /\ everAdded = {}
    /\ spc = "print"
    /\ ret = EmptyMap
    /\ extents = EmptyMap
    /\ original = [f \in Trampolines |-> "real"]
    /\ env_preload = FALSE
    /\ made = [log |-> 1, ledger |-> 1, sampler |-> 1, atexit |-> 1]
    /\ aborted = FALSE
    /\ ipc = [t \in Threads |-> [pc |-> "run", fn |-> "malloc"]]
    /\ running_ = TRUE
    /\ map_state = "live"
    /\ log_state = "live"
    /\ dpc = "run"
    /\ faulted = FALSE
    /\ timeline = << >>
    /\ final_frame = FALSE
    /\ unfreed = {}
    /\ guards = [t \in Threads \cup {Sampler} |->
                    IF t = Sampler THEN <<FALSE>> ELSE << >>]
    /\ offset = 0
    /\ regions = << >>
    /\ asked = NoRequest
    /\ exhausted = FALSE
    /\ LogDefaults

\* ---------------------------------------- one host, every call it can make
\* history: the scope in force, and the size asked for, when the allocator
\* handed an address to a host's call; forgotten when the host frees it
BornNext(t) ==
    IF Depth(t) = 0 /\ stack'[t] # << >> /\ stack'[t][1].fn \in {"malloc", "calloc"}
       /\ stack'[t][1].addr # NULL
    THEN [born EXCEPT ![stack'[t][1].addr] =
              [scope |-> scope, size |-> stack'[t][1].size]]
    ELSE IF Depth(t) = 1 /\ Top(t).fn = "free" /\ Top(t).pc = "real"
            /\ Top(t).addr # NULL
         THEN [born EXCEPT ![Top(t).addr] = NotBorn]
         ELSE born

HostMalloc(t) == \E n \in ReqSizes : malloc(t, FALSE, n)
HostCalloc(t) == \E a \in CallocArgs : calloc(t, FALSE, a[1], a[2])
HostFree(t) == \E p \in Ptr : free(t, FALSE, p)
HostSetScope(t) == \E s \in HostScopes : set_scope(t, s)
\* the tracker's own allocator calls, made inside a guarded region
InnerMalloc(t) == \E n \in {1, SIZE_MAX} : malloc(t, TRUE, n)
InnerCalloc(t) == calloc(t, TRUE, 1, 1)
InnerFree(t) == \E p \in Ptr : free(t, TRUE, p)

\* a step of the one host of the sequential specification
SeqStep(t, A) ==
    /\ A
    /\ born' = BornNext(t)
    /\ UNCHANGED <<hostVars, samplerVars, lifeVars>>

Next ==
    \/ \E t \in SeqThreads : SeqStep(t, HostMalloc(t))
    \/ \E t \in SeqThreads : SeqStep(t, HostCalloc(t))
    \/ \E t \in SeqThreads : SeqStep(t, HostFree(t))
    \/ \E t \in SeqThreads : SeqStep(t, HostSetScope(t))
    \/ \E t \in SeqThreads : SeqStep(t, memory_track(t))
    \/ \E t \in SeqThreads : SeqStep(t, track_log(t))
    \/ \E t \in SeqThreads : SeqStep(t, track_copy(t))
    \/ \E t \in SeqThreads : SeqStep(t, Tracking_add_lock(t))
    \/ \E t \in SeqThreads : SeqStep(t, Tracking_add(t))
    \/ \E t \in SeqThreads : SeqStep(t, memory_release(t))
    \/ \E t \in SeqThreads : SeqStep(t, release_log(t))
    \/ \E t \in SeqThreads : SeqStep(t, Tracking_remove_lock(t))
    \/ \E t \in SeqThreads : SeqStep(t, Tracking_remove(t))
    \/ \E t \in SeqThreads : SeqStep(t, real_free(t))
    \/ \E t \in SeqThreads : SeqStep(t, set_scope_end(t))
    \/ \E t \in SeqThreads : SeqStep(t, Return(t))

Spec == Init /\ [][Next]_vars

\* ------------------------------- one host, and the tracker's own calls
\* The host sets a scope, allocates and frees; inside the guarded regions
\* (AllocSites) the tracker calls the intercepted malloc / calloc / free
\* itself, as std::string and std::unordered_map do.
ReentSetScope(t) == set_scope(t, "A")
ReentMalloc(t) == malloc(t, FALSE, 1)

NextReent ==
    \/ \E t \in SeqThreads : SeqStep(t, ReentSetScope(t))
    \/ \E t \in SeqThreads : SeqStep(t, ReentMalloc(t))
    \/ \E t \in SeqThreads : SeqStep(t, HostFree(t))
    \/ \E t \in SeqThreads : SeqStep(t, InnerMalloc(t))
    \/ \E t \in SeqThreads : SeqStep(t, InnerCalloc(t))
    \/ \E t \in SeqThreads : SeqStep(t, InnerFree(t))
    \/ \E t \in SeqThreads : SeqStep(t, memory_track(t))
    \/ \E t \in SeqThreads : SeqStep(t, track_log(t))
    \/ \E t \in SeqThreads : SeqStep(t, track_copy(t))
    \/ \E t \in SeqThreads : SeqStep(t, Tracking_add_lock(t))
    \/ \E t \in SeqThreads : SeqStep(t, Tracking_add(t))
    \/ \E t \in SeqThreads : SeqStep(t, memory_release(t))
    \/ \E t \in SeqThreads : SeqStep(t, release_log(t))
    \/ \E t \in SeqThreads : SeqStep(t, Tracking_remove_lock(t))
    \/ \E t \in SeqThreads : SeqStep(t, Tracking_remove(t))
    \/ \E t \in SeqThreads : SeqStep(t, real_free(t))
    \/ \E t \in SeqThreads : SeqStep(t, set_scope_end(t))
    \/ \E t \in SeqThreads : SeqStep(t, Return(t))

SpecReent == Init /\ [][NextReent]_vars

\* ------------------ one host and the sampler, with the tracker's own calls
\* the threads of this specification
SelfThreads == SeqThreads \cup {Sampler}

\* a step of a call of the host or of the sampler thread
SelfStep(t, A) ==
    /\ A
    /\ born' = (IF t = Sampler THEN born ELSE BornNext(t))
    /\ UNCHANGED <<hostVars, samplerVars, lifeVars>>

\* a step of TrackingThread::run, which waits for the call it has made
SelfSample(A) ==
    /\ Idle(Sampler)
    /\ A
    /\ UNCHANGED <<hostVars, born, lifeVars>>

NextSelf ==
    \/ \E t \in SeqThreads : SelfStep(t, ReentSetScope(t))
    \/ \E t \in SeqThreads : SelfStep(t, ReentMalloc(t))
    \/ \E t \in SeqThreads : SelfStep(t, HostFree(t))
    \/ \E t \in SelfThreads : SelfStep(t, malloc(t, TRUE, 1))
    \/ \E t \in SelfThreads : SelfStep(t, InnerFree(t))
    \/ \E t \in SelfThreads : SelfStep(t, memory_track(t))
    \/ \E t \in SelfThreads : SelfStep(t, track_log(t))
    \/ \E t \in SelfThreads : SelfStep(t, track_copy(t))
    \/ \E t \in SelfThreads : SelfStep(t, Tracking_add_lock(t))
    \/ \E t \in SelfThreads : SelfStep(t, Tracking_add(t))
    \/ \E t \in SelfThreads : SelfStep(t, memory_release(t))
    \/ \E t \in SelfThreads : SelfStep(t, release_log(t))
    \/ \E t \in SelfThreads : SelfStep(t, Tracking_remove_lock(t))
    \/ \E t \in SelfThreads : SelfStep(t, Tracking_remove(t))
    \/ \E t \in SelfThreads : SelfStep(t, real_free(t))
    \/ \E t \in SeqThreads : SelfStep(t, set_scope_end(t))
    \/ \E t \in SelfThreads : SelfStep(t, Return(t))
    \/ SelfSample(get_extents_lock)
    \/ SelfSample(get_extents_copy)
    \/ SelfSample(get_extents_return)
    \/ SelfSample(sampler_write)
    \/ SelfSample(sampler_loop)
    \/ SelfSample(sampler_wait)

SpecSelf == Init /\ [][NextSelf]_vars

\* --------------------------- host threads in cycles, beside the sampler
\* Host thread i repeats set_scope(T_i); p = malloc(n); free(p), Cycles times.
CycleScope(t) == ScopeNames[t]
CycleSizes == {1, SIZE_MAX}

CycleSetScope(t) ==
    /\ phase[t] = "scope"
    /\ set_scope(t, CycleScope(t))
    /\ phase' = [phase EXCEPT ![t] = "alloc"]
    /\ UNCHANGED <<cycle, held>>

CycleMalloc(t) ==
    /\ phase[t] = "alloc"
    /\ \E n \in CycleSizes : malloc(t, FALSE, n)
    /\ phase' = [phase EXCEPT ![t] = "free"]
    /\ held' = [held EXCEPT ![t] = stack'[t][1].addr]
    /\ UNCHANGED cycle

CycleFree(t, n) ==
    /\ phase[t] = "free"
    /\ free(t, FALSE, held[t])
    /\ cycle' = [cycle EXCEPT ![t] = @ + 1]
    /\ phase' = [phase EXCEPT ![t] = IF cycle[t] + 1 >= n THEN "done" ELSE "scope"]
    /\ held' = [held EXCEPT ![t] = NULL]

\* a host's call, and a step inside an intercepted call of a cycling host
CycleCall(A) == A /\ UNCHANGED <<born, samplerVars, lifeVars>>
CycleStep(A) == A /\ UNCHANGED <<hostVars, born, samplerVars, lifeVars>>

NextCycle ==
    \/ \E t \in ConcThreads : CycleCall(CycleSetScope(t))
    \/ \E t \in ConcThreads : CycleCall(CycleMalloc(t))
    \/ \E t \in ConcThreads : CycleCall(CycleFree(t, Cycles))
    \/ \E t \in ConcThreads : CycleStep(memory_track(t))
    \/ \E t \in ConcThreads : CycleStep(track_log(t))
    \/ \E t \in ConcThreads : CycleStep(track_copy(t))
    \/ \E t \in ConcThreads : CycleStep(Tracking_add_lock(t))
    \/ \E t \in ConcThreads : CycleStep(Tracking_add(t))
    \/ \E t \in ConcThreads : CycleStep(memory_release(t))
    \/ \E t \in ConcThreads : CycleStep(release_log(t))
    \/ \E t \in ConcThreads : CycleStep(Tracking_remove_lock(t))
    \/ \E t \in ConcThreads : CycleStep(Tracking_remove(t))
    \/ \E t \in ConcThreads : CycleStep(real_free(t))
    \/ \E t \in ConcThreads : CycleStep(set_scope_end(t))
    \/ \E t \in ConcThreads : CycleStep(Return(t))

SpecCycle == Init /\ [][NextCycle]_vars

\* a step of the sampler thread
SampleStep(A) == A /\ UNCHANGED <<hostVars, born, lifeVars>>

NextSample ==
    \/ \E t \in ConcThreads : CycleCall(CycleSetScope(t))
    \/ \E t \in ConcThreads : CycleCall(CycleMalloc(t))
    \/ \E t \in ConcThreads : CycleCall(CycleFree(t, SampleCycles))
    \/ \E t \in ConcThreads : CycleStep(memory_track(t))
    \/ \E t \in ConcThreads : CycleStep(track_log(t))
    \/ \E t \in ConcThreads : CycleStep(track_copy(t))
    \/ \E t \in ConcThreads : CycleStep(Tracking_add_lock(t))
    \/ \E t \in ConcThreads : CycleStep(Tracking_add(t))
    \/ \E t \in ConcThreads : CycleStep(memory_release(t))
    \/ \E t \in ConcThreads : CycleStep(release_log(t))
    \/ \E t \in ConcThreads : CycleStep(Tracking_remove_lock(t))
    \/ \E t \in ConcThreads : CycleStep(Tracking_remove(t))
    \/ \E t \in ConcThreads : CycleStep(real_free(t))
    \/ \E t \in ConcThreads : CycleStep(set_scope_end(t))
    \/ \E t \in ConcThreads : CycleStep(Return(t))
    \/ SampleStep(get_extents_lock)
    \/ SampleStep(get_extents_copy)
    \/ SampleStep(get_extents_return)
    \/ SampleStep(sampler_write)
    \/ SampleStep(sampler_loop)
    \/ SampleStep(sampler_wait)

SpecSample == Init /\ [][NextSample]_vars

\* ------------------------------------------- the first allocator calls
\* the state at process start: nothing resolved, nothing constructed
BootState ==
    /\ tracking_enabled = FALSE
    /\ recursion_guard_ = [t \in Threads \cup {Sampler} |-> FALSE]
    /\ scope = ""
    /\ scope_writers = {}
    /\ scope_torn = FALSE
    /\ thread_guard_ = NoThread
    /\ ptr_map = EmptyMap
    /\ scope_map = EmptyMap
    /\ logged = << >>
    /\ heap = [a \in Addr |-> "free"]
    /\ stack = [t \in Threads \cup {Sampler} |-> << >>]
    /\ phase = [t \in Threads |-> "scope"]
    /\ cycle = [t \in Threads |-> 0]
    /\ held = [t \in Threads |-> NULL]
    /\ born = [p \in Addr |-> NotBorn]
    /\ everAdded = {}
    /\ spc = "print"
    /\ ret = EmptyMap
    /\ extents = EmptyMap
    /\ original = [f \in Trampolines |-> "null"]
    /\ env_preload = TRUE
    /\ made = [log |-> 0, ledger |-> 0, sampler |-> 0, atexit |-> 0]
    /\ aborted = FALSE
    /\ ipc = [t \in Threads |-> [pc |-> "idle", fn |-> "malloc"]]
    /\ running_ = FALSE
    /\ map_state = "none"
    /\ log_state = "none"
    /\ dpc = "run"
    /\ faulted = FALSE
    /\ timeline = << >>
    /\ final_frame = FALSE
    /\ unfreed = {}
    /\ guards = [t \in Threads \cup {Sampler} |-> << >>]
    /\ offset = 0
    /\ regions = << >>
    /\ asked = NoRequest
    /\ exhausted = FALSE

InitBoot == BootState /\ LogDefaults

IAt(t, pc) == ipc[t].pc = pc
IGoto(t, pc) == ipc' = [ipc EXCEPT ![t].pc = pc]

\* malloc / free / calloc, lines 92, 105, 116: if (!overloads::f) init()
entry_check(t, fn) ==
    /\ IAt(t, "idle")
    /\ ipc' = [ipc EXCEPT ![t] = [pc |-> IF original[fn] = "null" THEN "init" ELSE "call",
                                  fn |-> fn]]
    /\ UNCHANGED <<original, env_preload, made, aborted, tracking_enabled, ledger,
                   running_, map_state, log_state>>

\* overloads::init, line 76: calloc.original = &dummy_calloc
overloads_init(t) ==
    /\ IAt(t, "init")
    /\ original' = [original EXCEPT !["calloc"] = "dummy"]
    /\ IGoto(t, "i_malloc")
    /\ UNCHANGED <<env_preload, made, aborted, tracking_enabled, ledger,
                   running_, map_state, log_state>>

\* overloads::base::init, lines 15-23, for malloc, free and calloc in turn
base_init(t) ==
    /\ ipc[t].pc \in {"i_malloc", "i_free", "i_calloc"}
    /\ LET f == CASE IAt(t, "i_malloc") -> "malloc"
                  [] IAt(t, "i_free") -> "free"
                  [] OTHER -> "calloc"
       IN original' = [original EXCEPT ![f] = "real"]
    /\ IGoto(t, CASE IAt(t, "i_malloc") -> "i_free"
                  [] IAt(t, "i_free") -> "i_calloc"
                  [] OTHER -> "m_log")
    /\ UNCHANGED <<env_preload, made, aborted, tracking_enabled, ledger,
                   running_, map_state, log_state>>

\* memory::init, line 425: log = std::make_shared<Log>()
memory_init_log(t) ==
    /\ IAt(t, "m_log")
    /\ made' = [made EXCEPT !.log = @ + 1]
    /\ log_state' = "live"
    /\ IGoto(t, "m_map")
    /\ UNCHANGED <<original, env_preload, aborted, tracking_enabled, ledger,
                   running_, map_state>>

\* memory::init, line 426: map = std::make_unique<Tracking>(log).
\* Tracking::Tracking aborts without LD_PRELOAD and starts a sampler thread;
\* the assignment destroys the ledger map held before, whose destructor
\* clears tracking_enabled
Tracking_ctor(t) ==
    /\ IAt(t, "m_map")
    /\ IF ~env_preload
       THEN /\ aborted' = TRUE
            /\ UNCHANGED <<made, tracking_enabled, ledger, ipc, running_, map_state>>
       ELSE /\ made' = [made EXCEPT !.ledger = @ + 1, !.sampler = @ + 1]
            /\ tracking_enabled' = (IF made.ledger > 0 THEN FALSE ELSE tracking_enabled)
            /\ ptr_map' = EmptyMap
            /\ scope_map' = EmptyMap
            /\ map_state' = "live"
            /\ running_' = TRUE
            /\ IGoto(t, "m_enable")
            /\ UNCHANGED <<aborted, everAdded>>
    /\ UNCHANGED <<original, env_preload, log_state>>

\* memory::init, lines 427-428: tracking_enabled = true; atexit(destroy)
memory_init_enable(t) ==
    /\ IAt(t, "m_enable")
    /\ tracking_enabled' = TRUE
    /\ made' = [made EXCEPT !.atexit = @ + 1]
    /\ IGoto(t, "unset")
    /\ UNCHANGED <<original, env_preload, aborted, ledger, running_, map_state,
                   log_state>>

\* overloads::init, line 84: unsetenv("LD_PRELOAD")
overloads_init_unset(t) ==
    /\ IAt(t, "unset")
    /\ env_preload' = FALSE
    /\ IGoto(t, "call")
    /\ UNCHANGED <<original, made, aborted, tracking_enabled, ledger, running_,
                   map_state, log_state>>

\* dummy_calloc, lines 63-64: offset += num * size, in size_t
dummy_calloc_offset(off, num, size) == (off + num * size) % ArenaMod
\* dummy_calloc, lines 65-70: if (offset >= MAX_SIZE) abort()
dummy_calloc_aborts(off, num, size) == dummy_calloc_offset(off, num, size) >= MAX_SIZE
\* dummy_calloc, line 71: buf + oldOffset, as a byte offset into buf
dummy_calloc_ret(off) == PtrSize * off

\* extern "C" calloc(num, size) while the trampoline points at dummy_calloc:
\* made by dlsym inside overloads::base::init, or by a thread whose call
\* reaches the trampoline then. The result is never null, so memory::track
\* follows (lines 122-124); the scope is empty here, so it prints at most.
bootstrap_calloc(t, num, size) ==
    /\ original["calloc"] = "dummy"
    /\ \/ ipc[t].pc \in {"i_malloc", "i_free", "i_calloc"}
       \/ IAt(t, "call") /\ ipc[t].fn = "calloc"
    /\ Len(regions) < MaxCallocs
    /\ offset' = dummy_calloc_offset(offset, num, size)
    /\ asked' = [num |-> num, size |-> size, old |-> offset]
    /\ IF dummy_calloc_aborts(offset, num, size)
       THEN /\ aborted' = TRUE
            /\ exhausted' = TRUE
            /\ UNCHANGED <<regions, logged, ipc>>
       ELSE /\ regions' = Append(regions, [start |-> dummy_calloc_ret(offset),
                                           len |-> num * size])
            /\ logged' = (IF tracking_enabled /\ ~RecursionGuard_recursion(t)
                          THEN <<"tracking">> ELSE logged)
            /\ IF IAt(t, "call") THEN IGoto(t, "run") ELSE UNCHANGED ipc
            /\ UNCHANGED <<aborted, exhausted>>

ArenaStep(A) ==
    /\ ~aborted
    /\ A
    /\ UNCHANGED <<tracking_enabled, recursion_guard_, scopeVars, thread_guard_,
                   ledger, heap, stack, hostVars, born, samplerVars, original,
                   env_preload, made, exitVars, logVars, guards>>

\* a step of the start-up code: it touches no call frame, and nothing runs
\* after abort()
BootStep(A) ==
    /\ ~aborted
    /\ A
    /\ UNCHANGED <<recursion_guard_, scopeVars, thread_guard_, logged, heap, stack,
                   hostVars, born, samplerVars, dpc, faulted, timeline, final_frame,
                   unfreed, logVars, guards,
                   arenaVars>>

\* the call goes on through its trampoline
BootCall(t) ==
    /\ ~aborted
    /\ IAt(t, "call")
    /\ CASE ipc[t].fn = "malloc" -> malloc(t, FALSE, 1)
         [] ipc[t].fn = "calloc" -> original["calloc"] = "real" /\ calloc(t, FALSE, 1, 1)
         [] OTHER -> free(t, FALSE, NULL)
    /\ IGoto(t, "run")
    /\ UNCHANGED <<original, env_preload, made, aborted, hostVars, born, samplerVars,
                   exitVars, logVars, guards,
                   arenaVars>>

\* a step inside the call
BootRun(A) ==
    /\ ~aborted
    /\ A
    /\ UNCHANGED <<hostVars, born, samplerVars, lifeVars>>

NextBoot ==
    \/ \E t \in ConcThreads, fn \in Trampolines : BootStep(entry_check(t, fn))
    \/ \E t \in ConcThreads : BootStep(overloads_init(t))
    \/ \E t \in ConcThreads : BootStep(base_init(t))
    \/ \E t \in ConcThreads : BootStep(memory_init_log(t))
    \/ \E t \in ConcThreads : BootStep(Tracking_ctor(t))
    \/ \E t \in ConcThreads : BootStep(memory_init_enable(t))
    \/ \E t \in ConcThreads : BootStep(overloads_init_unset(t))
    \/ \E t \in ConcThreads : BootCall(t)
    \/ \E t \in ConcThreads, num, size \in ArenaArgs :
          ArenaStep(bootstrap_calloc(t, num, size))
    \/ \E t \in ConcThreads : BootRun(memory_track(t))
    \/ \E t \in ConcThreads : BootRun(track_log(t))
    \/ \E t \in ConcThreads : BootRun(memory_release(t))
    \/ \E t \in ConcThreads : BootRun(release_log(t))
    \/ \E t \in ConcThreads : BootRun(Tracking_remove_lock(t))
    \/ \E t \in ConcThreads : BootRun(Tracking_remove(t))
    \/ \E t \in ConcThreads : BootRun(real_free(t))
    \/ \E t \in ConcThreads : BootRun(Return(t))

SpecBoot == InitBoot /\ [][NextBoot]_vars

\* ------------------------------------------------------ process exit
\* the thread that runs main and, at exit, the at-exit hook memory::destroy
Main == CHOOSE t \in SeqThreads : TRUE
\* the other host threads
Workers == ConcThreads \ SeqThreads

\* the host's run set_scope(T); p = malloc(n); free(p)
RunMalloc(t) ==
    /\ phase[t] = "alloc"
    /\ malloc(t, FALSE, 1)
    /\ phase' = [phase EXCEPT ![t] = "free"]
    /\ held' = [held EXCEPT ![t] = stack'[t][1].addr]
    /\ UNCHANGED cycle

RunFree(t) ==
    /\ phase[t] = "free"
    /\ free(t, FALSE, held[t])
    /\ cycle' = [cycle EXCEPT ![t] = @ + 1]
    /\ phase' = [phase EXCEPT ![t] = "done"]
    /\ held' = [held EXCEPT ![t] = NULL]

\* memory::destroy, line 418, run by exit() once main has returned
memory_destroy ==
    /\ dpc = "run"
    /\ Idle(Main)
    /\ tracking_enabled' = FALSE
    /\ dpc' = "reset"
    /\ UNCHANGED <<running_, map_state, log_state, unfreed, logged>>

\* memory::destroy, line 419: map.reset() stores null and runs
\* Tracking::~Tracking, lines 323-324; stop() runs
\* TrackingThread::~TrackingThread, lines 257-258
Tracking_dtor_stop ==
    /\ dpc = "reset"
    /\ map_state' = "dying"
    /\ tracking_enabled' = FALSE
    /\ running_' = FALSE
    /\ dpc' = "join"
    /\ UNCHANGED <<log_state, unfreed, logged>>

\* a join that returns while the sampler thread is still running
TrackingThread_join_detached ==
    /\ dpc = "join"
    /\ dpc' = "walk"
    /\ UNCHANGED <<tracking_enabled, running_, map_state, log_state, unfreed, logged>>

\* TrackingThread::~TrackingThread, line 259: tracking_thread_->join()
TrackingThread_join ==
    /\ dpc = "join"
    /\ spc = "exited"
    /\ dpc' = "walk"
    /\ UNCHANGED <<tracking_enabled, running_, map_state, log_state, unfreed, logged>>

\* the report of Tracking::~Tracking: every scope whose total is not 0
Unfreed(sm) == {<<k, sm[k]>> : k \in {x \in DOMAIN sm : sm[x] # 0}}

\* Tracking::~Tracking, lines 325-340, and the destruction of its members
Tracking_dtor_walk ==
    /\ dpc = "walk"
    /\ unfreed' = Unfreed(scope_map)
    /\ logged' = (IF Unfreed(scope_map) # {} /\ log_state = "live"
                  THEN <<"Unfreed memory">> ELSE logged)
    /\ map_state' = "dead"
    /\ dpc' = "logreset"
    /\ UNCHANGED <<tracking_enabled, running_, log_state>>

\* memory::destroy, line 420: log.reset() runs Log::~Log, lines 99-102
memory_destroy_log ==
    /\ dpc = "logreset"
    /\ tracking_enabled' = FALSE
    /\ log_state' = "dead"
    /\ dpc' = "exited"
    /\ UNCHANGED <<running_, map_state, unfreed, logged>>

\* the step thread t is about to take uses memory::log or memory::map
UsesLog(t) == Depth(t) > 0 /\ Top(t).pc \in {"t_log", "r_log"}
UsesMap(t) == Depth(t) > 0 /\ Top(t).pc \in {"add_lock", "add_body", "rm_lock", "rm_body"}
Stale(t) ==
    \/ UsesLog(t) /\ log_state # "live"
    \/ UsesMap(t) /\ map_state # "live"

\* the process dies
Fault == faulted' = TRUE /\ UNCHANGED <<tracking_enabled, recursion_guard_, scopeVars,
                                        thread_guard_, ledger, logged, heap, stack>>

\* a host's call (the main thread makes none once it has left main), and a
\* step inside a call. A step on an object that is being or
\* has been destroyed is undefined: the process dies, or the step goes on
ExitCall(t, A) ==
    /\ ~faulted
    /\ t = Main => dpc = "run"
    /\ A
    /\ UNCHANGED <<born, samplerVars, lifeVars>>
ExitStep(t, A) ==
    /\ ~faulted
    /\ IF Stale(t)
       THEN (A /\ UNCHANGED faulted) \/ Fault
       ELSE A /\ UNCHANGED faulted
    /\ UNCHANGED <<hostVars, born, samplerVars, bootVars, running_, map_state,
                   log_state, dpc, timeline, final_frame, unfreed, logVars, guards,
                   arenaVars>>

\* a step of the sampler thread
ExitSample(A) ==
    /\ ~faulted
    /\ A
    /\ UNCHANGED <<hostVars, born, lifeVars>>
\* the frame goes to the timeline
ExitSampleWrite ==
    /\ ~faulted
    /\ sampler_write
    /\ timeline' = (IF timeline # << >> /\ timeline[Len(timeline)] = extents
                    THEN timeline ELSE Append(timeline, extents))
    /\ final_frame' = (final_frame \/ ~running_)
    /\ UNCHANGED <<hostVars, born, bootVars, running_, map_state, log_state, dpc,
                   faulted, unfreed, logVars, guards,
                   arenaVars>>

\* a step of exit on the main thread
ExitMain(A) ==
    /\ ~faulted
    /\ A
    /\ UNCHANGED <<recursion_guard_, scopeVars, thread_guard_, ledger, heap, stack,
                   hostVars, born, samplerVars, bootVars, faulted, timeline,
                   final_frame, logVars, guards,
                   arenaVars>>

\* the main thread alone, the sampler, and exit
NextExit ==
    \/ \E t \in SeqThreads : ExitCall(t, CycleSetScope(t))
    \/ \E t \in SeqThreads : ExitCall(t, RunMalloc(t))
    \/ \E t \in SeqThreads : ExitCall(t, RunFree(t))
    \/ \E t \in SeqThreads : ExitStep(t, memory_track(t))
    \/ \E t \in SeqThreads : ExitStep(t, track_log(t))
    \/ \E t \in SeqThreads : ExitStep(t, track_copy(t))
    \/ \E t \in SeqThreads : ExitStep(t, Tracking_add_lock(t))
    \/ \E t \in SeqThreads : ExitStep(t, Tracking_add(t))
    \/ \E t \in SeqThreads : ExitStep(t, memory_release(t))
    \/ \E t \in SeqThreads : ExitStep(t, release_log(t))
    \/ \E t \in SeqThreads : ExitStep(t, Tracking_remove_lock(t))
    \/ \E t \in SeqThreads : ExitStep(t, Tracking_remove(t))
    \/ \E t \in SeqThreads : ExitStep(t, real_free(t))
    \/ \E t \in SeqThreads : ExitStep(t, set_scope_end(t))
    \/ \E t \in SeqThreads : ExitStep(t, Return(t))
    \/ ExitSample(get_extents_lock)
    \/ ExitSample(get_extents_copy)
    \/ ExitSample(get_extents_return)
    \/ ExitSampleWrite
    \/ ExitSample(sampler_loop)
    \/ ExitSample(sampler_wait)
    \/ ExitMain(memory_destroy)
    \/ ExitMain(Tracking_dtor_stop)
    \/ ExitMain(TrackingThread_join)
    \/ ExitMain(Tracking_dtor_walk)
    \/ ExitMain(memory_destroy_log)

SpecExit == Init /\ [][NextExit]_vars

\* the main thread returns from main and exits while the other host threads
\* are still running
NextRace ==
    \/ \E t \in Workers : ExitCall(t, CycleSetScope(t))
    \/ \E t \in Workers : ExitCall(t, RunMalloc(t))
    \/ \E t \in Workers : ExitCall(t, RunFree(t))
    \/ \E t \in Workers : ExitStep(t, memory_track(t))
    \/ \E t \in Workers : ExitStep(t, track_log(t))
    \/ \E t \in Workers : ExitStep(t, track_copy(t))
    \/ \E t \in Workers : ExitStep(t, Tracking_add_lock(t))
    \/ \E t \in Workers : ExitStep(t, Tracking_add(t))
    \/ \E t \in Workers : ExitStep(t, memory_release(t))
    \/ \E t \in Workers : ExitStep(t, release_log(t))
    \/ \E t \in Workers : ExitStep(t, Tracking_remove_lock(t))
    \/ \E t \in Workers : ExitStep(t, Tracking_remove(t))
    \/ \E t \in Workers : ExitStep(t, real_free(t))
    \/ \E t \in Workers : ExitStep(t, set_scope_end(t))
    \/ \E t \in Workers : ExitStep(t, Return(t))
    \/ ExitSample(get_extents_lock)
    \/ ExitSample(get_extents_copy)
    \/ ExitSample(get_extents_return)
    \/ ExitSample(sampler_write)
    \/ ExitSample(sampler_loop)
    \/ ExitSample(sampler_wait)
    \/ ExitMain(memory_destroy)
    \/ ExitMain(Tracking_dtor_stop)
    \/ ExitMain(TrackingThread_join)
    \/ ExitMain(Tracking_dtor_walk)
    \/ ExitMain(memory_destroy_log)

SpecRace == Init /\ [][NextRace]_vars

\* ----------------------------------------- the log sink and the outfiles
\* the process before memory::init, under any setting of the environment
InitLog ==
    /\ BootState
    /\ env_logfile \in EnvValues
    /\ env_outfile \in OutfileValues
    /\ can_open \in BOOLEAN
    /\ out_ = "none"
    /\ logfile_ = NullOutfile
    /\ outfile = NullOutfile
    /\ thrown = FALSE
    /\ printed_to = "none"

LogStep(A) ==
    /\ A
    /\ UNCHANGED <<tracking_enabled, recursion_guard_, scopeVars, thread_guard_,
                   ledger, logged, heap, stack, hostVars, born, samplerVars,
                   bootVars, running_, map_state, dpc, faulted, timeline,
                   final_frame, unfreed, guards,
                   arenaVars>>

NextLog ==
    \/ LogStep(Log_ctor)
    \/ LogStep(Log_print)
    \/ LogStep(sampler_open)

SpecLog == InitLog /\ [][NextLog]_vars

\* ------------------------------------------------- guards, nested at will
\* a thread constructs a RecursionGuard: it is the innermost one alive
Guard_construct(t) ==
    /\ Len(guards[t]) < MaxGuards
    /\ guards' = [guards EXCEPT ![t] = Append(@, RecursionGuard_recursion(t))]
    /\ recursion_guard_' = RecursionGuard_ctor(t)

\* the innermost guard of a thread goes out of scope
Guard_destroy(t) ==
    /\ guards[t] # << >>
    /\ recursion_guard_' =
          RecursionGuard_dtor(recursion_guard_, t, guards[t][Len(guards[t])])
    /\ guards' = [guards EXCEPT ![t] = SubSeq(@, 1, Len(@) - 1)]

GuardStep(A) ==
    /\ A
    /\ UNCHANGED <<tracking_enabled, scopeVars, thread_guard_, ledger, logged,
                   heap, stack, hostVars, born, samplerVars, bootVars, exitVars,
                   logVars, arenaVars>>

\* the threads that construct guards: the hosts, in memory::track and
\* memory::release, and the sampler, in TrackingThread::run
GuardThreads == ConcThreads \cup {Sampler}

NextGuard ==
    \/ \E t \in GuardThreads : GuardStep(Guard_construct(t))
    \/ \E t \in GuardThreads : GuardStep(Guard_destroy(t))

SpecGuard == Init /\ [][NextGuard]_vars

\* ------------------------------------------------------------------ claims
\* the thread whose step this is
Acting(t) == stack'[t] # stack[t]

RECURSIVE SumSizes(_, _)
SumSizes(pm, as) ==
    IF as = {} THEN 0
    ELSE LET a == CHOOSE x \in as : TRUE
         IN pm[a].size + SumSizes(pm, as \ {a})
\* the bytes the address map records under scope s
ScopeBytes(pm, s) == SumSizes(pm, {a \in DOMAIN pm : pm[a].scope = s})

\* C1: a free of an address a host allocated under a non-empty scope A
\* decrements scope_map[A] by the allocation's size and changes no other
\* total, whatever the scope is at the time of the free; a set_scope call
\* changes no entry of the ledger.
C1_FreeAttributedToAllocScope ==
    [][\A t \in SeqThreads :
          /\ (/\ Acting(t)
              /\ At(t, {"free"}, "rm_body")
              /\ Top(t).addr \in Addr
              /\ born[Top(t).addr] # NotBorn
              /\ born[Top(t).addr].scope # "")
             => LET A == born[Top(t).addr].scope
                    n == born[Top(t).addr].size
                IN /\ A \in DOMAIN scope_map
                   /\ scope_map[A] >= n
                   /\ scope_map' = [scope_map EXCEPT ![A] = @ - n]
          /\ (Acting(t) /\ Depth(t) > 0 /\ Top(t).fn = "set_scope")
             => UNCHANGED <<ptr_map, scope_map>>]_vars

\* C2: every scope total equals the sum of the sizes the address map records
\* under that scope, and every recorded scope has a total.
C2_LedgerConsistent ==
    /\ \A s \in DOMAIN scope_map : scope_map[s] = ScopeBytes(ptr_map, s)
    /\ \A a \in DOMAIN ptr_map : ptr_map[a].scope \in DOMAIN scope_map

\* C3: a scope once added keeps its entry; when the address map is empty
\* (every add has been matched by its remove) every total is exactly 0; and
\* the address map holds no address the allocator has taken back.
C3_MatchedPairsLeaveZero ==
    /\ everAdded \subseteq DOMAIN scope_map
    /\ ptr_map = EmptyMap => \A s \in DOMAIN scope_map : scope_map[s] = 0
    /\ \A a \in DOMAIN ptr_map : a # NULL => heap[a] # "free"

\* C3 witness: both scopes were added to, everything was freed again, and
\* the entries are still there at 0
C3_Witness ==
    /\ \A t \in SeqThreads : Idle(t)
    /\ ptr_map = EmptyMap
    /\ \A a \in Addr : heap[a] = "free"
    /\ logged = <<"release">>
    /\ DOMAIN scope_map = {"A", "B"}
    /\ scope_map["A"] = 0 /\ scope_map["B"] = 0

\* C4: an address allocated while the scope is empty has no address-map
\* entry, the empty scope has no total, no step of such an allocation call
\* changes the ledger, and a remove of an address that is not in the address
\* map changes neither map.
C4_EmptyScopeUntracked ==
    /\ [](/\ \A a \in Addr : (born[a] # NotBorn /\ born[a].scope = "")
                                => a \notin DOMAIN ptr_map
          /\ "" \notin DOMAIN scope_map)
    /\ [][\A t \in SeqThreads :
             /\ (/\ Acting(t) /\ Depth(t) > 0
                 /\ Top(t).fn \in {"malloc", "calloc"}
                 /\ scope = "")
                => UNCHANGED <<ptr_map, scope_map>>
             /\ (/\ Acting(t)
                 /\ At(t, {"free"}, "rm_body")
                 /\ Top(t).addr \notin DOMAIN ptr_map)
                => UNCHANGED <<ptr_map, scope_map>>]_vars

\* C4 witness: the free of an address allocated under the empty scope has
\* reached Tracking::remove, while the ledger holds other entries
C4_Witness ==
    \E t \in SeqThreads :
       /\ At(t, {"free"}, "rm_body")
       /\ Top(t).addr \in Addr
       /\ born[Top(t).addr] # NotBorn
       /\ born[Top(t).addr].scope = ""
       /\ ptr_map # EmptyMap

\* C5: when the underlying allocator returns NULL from malloc or calloc, no
\* step of that call changes the address map or a scope total.
C5_NoRecordOnFailure ==
    [][\A t \in SeqThreads :
          (/\ Acting(t) /\ Depth(t) > 0
           /\ Top(t).fn \in {"malloc", "calloc"}
           /\ Top(t).addr = NULL)
          => UNCHANGED <<ptr_map, scope_map>>]_vars

\* C6: Tracking::add for an address already in the address map leaves both
\* maps as they were and sends the duplicate record to the log sink.
C6_DuplicateAddIgnored ==
    [][\A t \in SeqThreads :
          (/\ Acting(t)
           /\ At(t, {"malloc", "calloc"}, "add_body")
           /\ Top(t).addr \in DOMAIN ptr_map)
          => /\ ptr_map' = ptr_map
             /\ scope_map' = scope_map
             /\ logged' = <<"duplicate", "previous">>]_vars

\* C6 witness: a duplicate add under a new scope has returned; the first
\* (scope, size) is still recorded and the new scope has no total
C6_Witness ==
    \E t \in SeqThreads :
       /\ At(t, {"malloc", "calloc"}, "ret")
       /\ logged = <<"duplicate", "previous">>
       /\ Top(t).addr \in DOMAIN ptr_map
       /\ ptr_map[Top(t).addr].scope # Top(t).sc
       /\ ptr_map[Top(t).addr].size # Top(t).size
       /\ Top(t).sc \notin DOMAIN scope_map

\* C7: every step of a malloc, free or calloc call that was entered with the
\* thread's recursion flag set leaves the address map and the scope map as
\* they were and leaves the flag set, and the call returns having called the
\* underlying allocator exactly once.
C7_ReentrantPassThrough ==
    [][\A t \in SeqThreads :
          (/\ Acting(t) /\ Depth(t) > 0
           /\ Top(t).fn \in {"malloc", "free", "calloc"}
           /\ Top(t).reent)
          => /\ UNCHANGED <<ptr_map, scope_map>>
             /\ recursion_guard_'[t]
             /\ Top(t).pc = "ret" => Top(t).calls = 1]_vars

\* C7 witness: a malloc made by Tracking::add, which holds the ledger mutex,
\* is about to return the address the underlying allocator gave it
C7_Witness ==
    \E t \in SeqThreads :
       /\ Depth(t) = 2
       /\ stack[t][1].pc = "add_body"
       /\ thread_guard_ = t
       /\ Top(t).fn = "malloc" /\ Top(t).pc = "ret"
       /\ Top(t).reent /\ Top(t).rec
       /\ Top(t).addr # NULL

\* every cycling host has made all its calls and the last has returned
AllDone == \A t \in ConcThreads : phase[t] = "done" /\ Idle(t)

\* C8: once every host thread has finished its set_scope; malloc; free cycles
\* the address map is empty and every scope total is 0; and until then some
\* thread can always take a step (no interleaving deadlocks).
C8_CyclesEndAtZero ==
    /\ AllDone => /\ ptr_map = EmptyMap
                  /\ \A s \in DOMAIN scope_map : scope_map[s] = 0
    /\ ~AllDone => ENABLED NextCycle

\* C8 witness: all cycles are over and every host's scope was added to
C8_Witness ==
    /\ AllDone
    /\ \A t \in ConcThreads : CycleScope(t) \in DOMAIN scope_map

\* C9: Tracking::add is never entered for an address that the address map
\* still holds.
C9_NoAddWhilePresent ==
    \A t \in ConcThreads :
       At(t, {"malloc", "calloc"}, "add_body") => Top(t).addr \notin DOMAIN ptr_map

\* C10: the map get_extents is about to return equals the scope-totals map of
\* that instant, which lies between its call and its return, and the map it
\* has returned holds only totals from 0 to SIZE_MAX.
C10_SnapshotLinearizable ==
    /\ spc = "ge_ret" => ret = scope_map
    /\ \A s \in DOMAIN extents : extents[s] \in 0 .. SIZE_MAX

\* C10 witness: get_extents is about to return a map with a total above 0
\* while a host's add or remove waits for the mutex
C10_Witness ==
    /\ spc = "ge_ret"
    /\ \E s \in DOMAIN ret : ret[s] > 0
    /\ \E t \in ConcThreads :
          Depth(t) > 0 /\ Top(t).pc \in {"add_lock", "rm_lock"}

\* C11: init takes effect once: at most one log sink, one ledger, one sampler
\* thread and one at-exit registration are ever made, abort() is never
\* called (unless by the bootstrap allocator, whose arena is exhausted), and
\* once calloc is resolved its trampoline never points at the bootstrap
\* allocator again.
C11_InitIdempotent ==
    /\ [](/\ made.log <= 1 /\ made.ledger <= 1
          /\ made.sampler <= 1 /\ made.atexit <= 1
          /\ aborted => exhausted)
    /\ [][original["calloc"] = "real" => original'["calloc"] = "real"]_vars

\* C12: no thread is ever about to print to a log sink, or to enter or run
\* Tracking::add or Tracking::remove on a ledger, that is not (or no longer)
\* there; and a track or release call that finds tracking_enabled false
\* changes neither the ledger nor the log.
C12_FlagGuardsLedger ==
    /\ [](\A t \in ConcThreads : ~Stale(t))
    /\ [][\A t \in ConcThreads :
             (/\ Acting(t) /\ Depth(t) > 0 /\ Top(t).pc \in {"track", "release"}
              /\ ~tracking_enabled)
             => UNCHANGED <<ptr_map, scope_map, logged>>]_vars

\* C13: the destination the log sink has picked is discard when
\* MEMSCOPETRACK_LOGFILE is unset, standard out for the value "stdout",
\* standard error for the value "stderr", and for every other value an
\* Outfile at that path.
C13_LogDestination ==
    log_state = "live" =>
       /\ out_ = (CASE env_logfile = Unset -> "none"
                    [] env_logfile = STDOUT -> "stdout"
                    [] env_logfile = STDERR -> "stderr"
                    [] OTHER -> "file")
       /\ out_ = "file" => ~logfile_.null /\ logfile_.filename_ = env_logfile

\* C14: an Outfile whose file could not be opened is never held by the log
\* sink or by the sampler: its construction has thrown instead.
C14_OutfileOpenOrThrown ==
    /\ ~logfile_.null => logfile_.is_open
    /\ ~outfile.null => outfile.is_open
    /\ (log_state = "live" /\ out_ = "file" /\ ~can_open) => thrown

\* a frame has the row k|v
HasRow(f, k, v) == k \in DOMAIN f /\ f[k] = v

\* C15: when the main thread has run set_scope("A"); p = malloc(n); free(p)
\* and the process has exited, the timeline holds a frame with the row A|n
\* and a later frame with the row A|0.
C15_TimelineShowsRise ==
    (dpc = "exited" /\ cycle[Main] = 1) =>
       \E i, j \in 1 .. Len(timeline) :
          /\ i < j
          /\ HasRow(timeline[i], CycleScope(Main), 1)
          /\ HasRow(timeline[j], CycleScope(Main), 0)

\* C16: when the sampler thread has exited, it has written a frame after
\* running_ became false (whatever the sampler was doing when
\* ~TrackingThread cleared the flag).
C16_FinalFrameAfterStop ==
    spc = "exited" => final_frame

\* C17: at process exit tracking_enabled is cleared before the sampler is
\* stopped, the sampler has been stopped and has exited before the walk of
\* the scope totals, the walk reports exactly the scopes whose total is not
\* 0, and the log sink is destroyed only after the ledger.
C17_TeardownOrder ==
    /\ [](/\ ~running_ => ~tracking_enabled
          /\ map_state # "live" => ~tracking_enabled
          /\ map_state = "dead" => (~running_ /\ spc = "exited")
          /\ map_state # "dead" => unfreed = {}
          /\ log_state = "dead" => map_state = "dead")
    /\ [][map_state' = "dead" /\ map_state # "dead" =>
             /\ spc = "exited"
             /\ log_state = "live"
             /\ unfreed' = {<<k, scope_map[k]>> :
                              k \in {x \in DOMAIN scope_map : scope_map[x] # 0}}]_vars

\* the process has exited with a scope that still holds memory, which the
\* walk has reported
C17_Witness ==
    /\ dpc = "exited"
    /\ unfreed # {}
    /\ log_state = "dead"

\* C18: the sampler thread owns the ledger mutex only inside get_extents,
\* never while it writes a frame or waits, and no step of the sampler
\* changes the ledger.
C18_NoOutputUnderMutex ==
    /\ [](/\ spc \in {"write", "loop", "wait", "exited"} => thread_guard_ # Sampler
          /\ thread_guard_ = Sampler => spc \in {"ge_copy", "ge_ret"})
    /\ [][(spc' # spc \/ ret' # ret) => UNCHANGED <<ptr_map, scope_map>>]_vars

\* the sampler is writing a frame while a host thread owns the ledger mutex
C18_Witness ==
    /\ spc = "write"
    /\ thread_guard_ \in ConcThreads
    /\ extents # EmptyMap

\* C19: of the guards alive on a thread exactly the outermost has
\* recursion = false and every nested one has recursion = true; the
\* thread's flag is set exactly while one of its guards is alive, so it is
\* cleared only when the outermost guard is destroyed; constructing or
\* destroying a guard on one thread leaves every other thread's flag alone.
C19_GuardNesting ==
    /\ [](\A t \in GuardThreads :
            /\ \A i \in 1 .. Len(guards[t]) : guards[t][i] = (i > 1)
            /\ recursion_guard_[t] = (guards[t] # << >>))
    /\ [][\A t \in GuardThreads :
            /\ (recursion_guard_[t] /\ ~recursion_guard_'[t]) =>
                  (Len(guards[t]) = 1 /\ guards'[t] = << >>)
            /\ guards'[t] # guards[t] =>
                  \A u \in GuardThreads \ {t} :
                     recursion_guard_'[u] = recursion_guard_[u]]_vars

\* a host has three guards nested, another host has one, and the sampler's
\* outermost guard has been destroyed
C19_Witness ==
    /\ \E t \in ConcThreads : Len(guards[t]) >= 3
    /\ \E t \in ConcThreads : Len(guards[t]) = 1
    /\ guards[Sampler] = << >>
    /\ ~recursion_guard_[Sampler]

\* the places of a call that come after the recursion test has let it pass
TrackedPlaces ==
    {"t_log", "t_copy", "add_lock", "add_body", "r_log", "rm_lock", "rm_body"}

\* C20: no thread is about to lock the ledger mutex while it owns it: a
\* call made from inside set_scope, add or remove, and every call of the
\* sampler thread, was entered with the thread's flag set and never reaches
\* the logging or the ledger; the sampler enters get_extents without the
\* mutex.
C20_NoSelfDeadlock ==
    /\ \A t \in SelfThreads : \A i \in 1 .. Depth(t) :
          /\ stack[t][i].pc \in {"add_lock", "rm_lock"} => thread_guard_ # t
          /\ (i > 1 \/ t = Sampler) =>
                /\ stack[t][i].reent
                /\ stack[t][i].pc \notin TrackedPlaces
    /\ spc = "print" => thread_guard_ # Sampler

\* the sampler, copying the map inside get_extents with the mutex held, has
\* made a malloc that passed through, while the host waits for the mutex
C20_Witness ==
    /\ spc = "ge_copy" /\ thread_guard_ = Sampler
    /\ Depth(Sampler) = 1
    /\ Top(Sampler).fn = "malloc" /\ Top(Sampler).pc = "ret"
    /\ Top(Sampler).rec /\ Top(Sampler).addr # NULL
    /\ \E t \in SeqThreads : Depth(t) > 0 /\ Top(t).pc = "add_lock"

\* the bytes of a region
Bytes(r) == r.start .. (r.start + r.len - 1)

\* C21: the offset of the bootstrap allocator never decreases; every region
\* it has returned lies inside the arena and shares no byte with another
\* region; a request makes the process abort exactly when the space left
\* in the arena is smaller than num * size; and once calloc is resolved its
\* trampoline never points at the bootstrap allocator again.
C21_BootstrapArena ==
    /\ [](\A i \in 1 .. Len(regions) :
            /\ Bytes(regions[i]) \subseteq 0 .. (PtrSize * MAX_SIZE - 1)
            /\ \A j \in 1 .. Len(regions) :
                  i # j => Bytes(regions[i]) \cap Bytes(regions[j]) = {})
    /\ [][/\ offset' >= offset
          /\ asked' # asked =>
                (aborted' <=> asked'.old + asked'.num * asked'.size > MAX_SIZE)
          /\ original["calloc"] = "real" => original'["calloc"] = "real"]_vars

====
